---------------------------- MODULE Spec2Model ----------------------------
(***************************************************************************)
(* A state-machine model of zen.py: construction of a Zen orchestrator,   *)
(* the run() pipeline (clone -> build -> generate -> apply -> cleanup),    *)
(* and the command-line entry point main().                                *)
(*                                                                         *)
(* The collaborators (GitManager, KnowledgeBase, EvolutionEngine) are      *)
(* external: each call either returns a value or raises an exception, and  *)
(* the model draws that outcome nondeterministically.                      *)
(***************************************************************************)
EXTENDS Integers, Sequences, FiniteSets, TLC

VARIABLES
    pc,                \* position of the caller / of run()
    viaCLI,            \* TRUE: the orchestrator is driven by main()
    env,               \* the process environment, for os.getenv
    target_repo_url,   \* Run Request
    source_repo_urls,
    files_to_update,
    branch_name,
    config_error,      \* <<>> or <<message>> of the ZenConfigError of __init__
    all_local_paths,   \* run(): local of the same name
    result,            \* run(): the result dict (a function on its keys)
    improvements,      \* run(): what generate_improvements returned
    pending,           \* run(): <<>> or <<e>>, an exception no except clause caught
    calls,             \* collaborator calls made by the current run, in order
    cleanup_warned,    \* the current run logged "Failed to clean up ..."
    knowledge_base,    \* self.knowledge_base: the build() arguments it has seen
    runs,              \* number of run() invocations on this orchestrator
    returned,          \* <<>> or <<result>>: what run() handed to its caller
    exit_status        \* <<>> or <<code>>: exit code of the process

vars == << pc, viaCLI, env, target_repo_url, source_repo_urls, files_to_update,
           branch_name, config_error, all_local_paths, result, improvements,
           pending, calls, cleanup_warned, knowledge_base, runs, returned, exit_status >>

-----------------------------------------------------------------------------
(* Bounds of the model *)

MaxSources == 2        \* longest source address list
MaxImprovements == 3   \* most improvement records generate returns
MaxRuns == 2           \* most run() invocations on one orchestrator

(* Small input alphabets *)

SourceUrls == {"https://h/s1", "https://h/s2"}
TargetUrls == {"", "https://h/t"}
BranchNames == {"zen-improvement", "feature"}
FileLists == {<<>>, <<"a.py">>}
ExcKinds == {"RuntimeError", "OSError", "ZenConfigError"}
ExcMsgs == {"boom", "denied"}
Unset == "<unset>"                  \* os.getenv gives None for this variable
EnvValues == {Unset, "", "secret"}

\* Local working-copy paths are opaque to run(): the i-th path that the clone
\* call of run number r hands back
LocalPath(r, i) == [run |-> r, idx |-> i]
None == [run |-> 0, idx |-> 0]     \* result['target_path'] = None

SeqsUpTo(S, n) == UNION {[1..k -> S] : k \in 0..n}

Exceptions == [kind : ExcKinds, msg : ExcMsgs]

-----------------------------------------------------------------------------
(* Module constants and pure helpers *)

REQUIRED_ENV_VARS == <<"GITHUB_TOKEN", "GEMINI_API_KEY">>

\* os.getenv(var)
getenv(var) == env[var]

\* Python truthiness of an Optional[str]: None and "" are false
Truthy(s) == s # Unset /\ s # ""

\* ', '.join(names), as the sequence of its pieces
RECURSIVE Join(_)
Join(names) ==
    IF Len(names) = 0 THEN <<>>
    ELSE IF Len(names) = 1 THEN <<names[1]>>
    ELSE <<names[1], ", ">> \o Join(Tail(names))

\* Faulty variant: the check stops at the first missing variable
MissingEnvVars_FirstOnly ==
    LET missing == SelectSeq(REQUIRED_ENV_VARS, LAMBDA var : ~Truthy(getenv(var)))
    IN  IF Len(missing) = 0 THEN <<>> ELSE <<missing[1]>>

\* [var for var in REQUIRED_ENV_VARS if not os.getenv(var)]
MissingEnvVars == SelectSeq(REQUIRED_ENV_VARS, LAMBDA var : ~Truthy(getenv(var)))

\* Message of the ZenConfigError of _validate_environment
MissingEnvMessage(missing) ==
    <<"Missing required environment variables: ">> \o Join(missing)

EmptyTargetMessage == <<"Target repository URL cannot be empty.">>

\* self.source_repo_urls + [self.target_repo_url]
repo_urls_to_clone == Append(source_repo_urls, target_repo_url)

total_repos == Len(repo_urls_to_clone)

\* Faulty variant: the target is left out of the repository count
InitialResult_SourcesOnly ==
    [ success |-> FALSE,
      repositories_analyzed |-> Len(source_repo_urls),
      improvements_applied |-> 0,
      files_targeted |-> IF Len(files_to_update) = 0 THEN "All"
                         ELSE Len(files_to_update),
      target_path |-> None ]

\* The result dict as run() initialises it
InitialResult ==
    [ success |-> FALSE,
      repositories_analyzed |-> total_repos,
      improvements_applied |-> 0,
      files_targeted |-> IF Len(files_to_update) = 0 THEN "All"
                         ELSE Len(files_to_update),
      target_path |-> None ]

\* dict.update / item assignment: keys of upd override those of d
Update(d, upd) == upd @@ d

\* Faulty variant: a ZenConfigError raised in the run leaves no error entry
ExceptHandler_SilentConfig(res, e) ==
    IF e.kind = "ZenConfigError"
    THEN res
    ELSE [error |-> <<"Operational failure: ", e.kind, ": ", e.msg>>] @@ res

\* Faulty variant: the operational message drops the exception's kind
ExceptHandler_NoKind(res, e) ==
    IF e.kind = "ZenConfigError"
    THEN [error |-> <<"Configuration Error: ", e.msg>>] @@ res
    ELSE [error |-> <<"Operational failure: ", e.msg>>] @@ res

\* The two except clauses of run()
ExceptHandler(res, e) ==
    IF e.kind = "ZenConfigError"
    THEN Update(res, [error |-> <<"Configuration Error: ", e.msg>>])
    ELSE Update(res, [error |-> <<"Operational failure: ", e.kind, ": ", e.msg>>])

CloneCountError ==
    [kind |-> "RuntimeError",
     msg |-> "GitManager failed to clone all specified repositories."]

\* f"Zen Improvement: Applied {len(improvements)} generated changes."
CommitMessage(imps) ==
    <<"Zen Improvement: Applied ", Len(imps), " generated changes.">>

ImprovementSeq(n) == [i \in 1..n |-> i]

\* Faulty variant: the slice keeps the target's path among the sources
source_paths_All == all_local_paths

\* Cloned paths already bound in the run (both exist once target_path is set)
target_path == all_local_paths[Len(all_local_paths)]
source_paths == SubSeq(all_local_paths, 1, Len(all_local_paths) - 1)

-----------------------------------------------------------------------------
(* Initial states: a caller about to construct a Zen object *)

Init ==
    /\ pc = "new"
    /\ viaCLI \in BOOLEAN
    /\ env \in [{REQUIRED_ENV_VARS[i] : i \in 1..Len(REQUIRED_ENV_VARS)} -> EnvValues]
    /\ target_repo_url \in TargetUrls
    /\ source_repo_urls \in SeqsUpTo(SourceUrls, MaxSources)
    /\ viaCLI => Len(source_repo_urls) > 0      \* argparse: --sources nargs='+'
    /\ files_to_update \in FileLists
    /\ branch_name \in BranchNames
    /\ config_error = <<>>
    /\ all_local_paths = <<>>
    /\ result = << >>
    /\ improvements = <<>>
    /\ pending = <<>>
    /\ calls = <<>>
    /\ cleanup_warned = FALSE
    /\ knowledge_base = <<>>
    /\ runs = 0
    /\ returned = <<>>
    /\ exit_status = <<>>

-----------------------------------------------------------------------------
(* Zen.__init__ and _validate_environment *)

Construct ==
    /\ pc = "new"
    /\ IF ~Truthy(target_repo_url)
       THEN /\ config_error' = <<EmptyTargetMessage>>
            /\ pc' = "config_error"
       ELSE IF Len(MissingEnvVars) > 0
       THEN /\ config_error' = <<MissingEnvMessage(MissingEnvVars)>>
            /\ pc' = "config_error"
       ELSE /\ config_error' = <<>>
            /\ pc' = "ready"
    /\ UNCHANGED << viaCLI, env, target_repo_url, source_repo_urls,
                    files_to_update, branch_name, all_local_paths, result,
                    improvements, pending, calls, cleanup_warned,
                    knowledge_base, runs, returned, exit_status >>

-----------------------------------------------------------------------------
(* Zen.run *)

\* Entry of run(): locals and the result dict are set up before the try
RunBegin ==
    /\ pc \in {"ready", "returned"}
    /\ runs < MaxRuns
    /\ viaCLI => runs = 0                 \* main() calls run() once
    /\ runs' = runs + 1
    /\ all_local_paths' = <<>>
    /\ result' = InitialResult
    /\ improvements' = <<>>
    /\ pending' = <<>>
    /\ calls' = <<>>
    /\ cleanup_warned' = FALSE
    /\ returned' = <<>>
    /\ pc' = "clone"
    /\ UNCHANGED << viaCLI, env, target_repo_url, source_repo_urls,
                    files_to_update, branch_name, config_error,
                    knowledge_base, exit_status >>

\* Faulty variant: a failure of generate is recorded but apply is still tried
Caught_ApplyAnyway(e) ==
    /\ result' = [error |-> <<"Operational failure: ", e.kind, ": ", e.msg>>] @@ result
    /\ pending' = <<>>
    /\ pc' = IF pc = "generate" THEN "apply" ELSE "finally"

\* Faulty variant: the first failing call of a run is tried a second time
Caught_RetryOnce(e) ==
    IF \A i \in DOMAIN calls : calls[i].exc = <<>>
    THEN UNCHANGED << result, pending, pc >>
    ELSE /\ result' = [error |-> <<"Operational failure: ", e.kind, ": ", e.msg>>] @@ result
         /\ pending' = <<>>
         /\ pc' = "finally"

\* Faulty variant: only RuntimeError is caught, anything else stays pending
Caught_OnlyRuntimeError(e) ==
    /\ result' = IF e.kind = "RuntimeError" THEN ExceptHandler(result, e) ELSE result
    /\ pending' = IF e.kind = "RuntimeError" THEN <<>> ELSE <<e>>
    /\ pc' = "finally"

\* An exception e raised inside the try block: the except clauses, then finally
Caught(e) ==
    /\ result' = ExceptHandler(result, e)
    /\ pending' = <<>>
    /\ pc' = "finally"

\* Faulty variant: build is entered even when there are no source paths
CloneReturned_AlwaysBuild(cloned_paths) ==
    /\ all_local_paths' = cloned_paths
    /\ IF Len(cloned_paths) # total_repos
       THEN /\ result' = [error |-> <<"Operational failure: ", CloneCountError.kind,
                                      ": ", CloneCountError.msg>>] @@ result
            /\ pending' = <<>>
            /\ pc' = "finally"
       ELSE /\ result' = [target_path |-> cloned_paths[Len(cloned_paths)]] @@ result
            /\ pc' = "build"
            /\ UNCHANGED pending

\* Faulty variant: the target path is not recorded right after the count check
CloneReturned_NoEarlyPath(cloned_paths) ==
    /\ all_local_paths' = cloned_paths
    /\ IF Len(cloned_paths) # total_repos
       THEN /\ result' = [error |-> <<"Operational failure: ", CloneCountError.kind,
                                      ": ", CloneCountError.msg>>] @@ result
            /\ pending' = <<>>
            /\ pc' = "finally"
       ELSE /\ pc' = IF Len(cloned_paths) > 1 THEN "build" ELSE "generate"
            /\ UNCHANGED << result, pending >>

\* Faulty variant: the list is kept for cleanup only after the count check
CloneReturned_LateAssign(cloned_paths) ==
    IF Len(cloned_paths) # total_repos
    THEN /\ Caught(CloneCountError)
         /\ UNCHANGED all_local_paths
    ELSE /\ all_local_paths' = cloned_paths
         /\ result' = Update(result,
                 [target_path |-> cloned_paths[Len(cloned_paths)]])
         /\ pc' = IF Len(cloned_paths) > 1 THEN "build" ELSE "generate"
         /\ UNCHANGED pending

\* What run() does with the list clone_repositories returned: keep it for
\* cleanup, check its length, record the target path, go on to build or generate
CloneReturned(cloned_paths) ==
    /\ all_local_paths' = cloned_paths
    /\ IF Len(cloned_paths) # total_repos
       THEN Caught(CloneCountError)
       ELSE /\ result' = Update(result,
                    [target_path |-> cloned_paths[Len(cloned_paths)]])
            /\ pc' = IF Len(cloned_paths) > 1 THEN "build" ELSE "generate"
            /\ UNCHANGED pending

\* The lists clone_repositories may return: too few, as many as requested,
\* or too many paths
ClonedLists == {[i \in 1..n |-> LocalPath(runs, i)] : n \in 0..(total_repos + 1)}

\* self.git_manager.clone_repositories(repo_urls_to_clone)
CloneStage ==
    /\ pc = "clone"
    /\ \/ \E e \in Exceptions :
            /\ calls' = Append(calls, [op |-> "clone", urls |-> repo_urls_to_clone,
                                       exc |-> <<e>>, ret |-> <<>>])
            /\ Caught(e)
            /\ UNCHANGED all_local_paths
       \/ \E cloned_paths \in ClonedLists :
            /\ calls' = Append(calls, [op |-> "clone", urls |-> repo_urls_to_clone,
                                       exc |-> <<>>, ret |-> cloned_paths])
            /\ CloneReturned(cloned_paths)
    /\ UNCHANGED << viaCLI, env, target_repo_url, source_repo_urls,
                    files_to_update, branch_name, config_error, improvements,
                    cleanup_warned, knowledge_base, runs, returned, exit_status >>

\* self.knowledge_base.build(source_paths), reached only with source paths
BuildStage ==
    /\ pc = "build"
    /\ \/ \E e \in Exceptions :
            /\ calls' = Append(calls, [op |-> "build", paths |-> source_paths,
                                       exc |-> <<e>>])
            /\ Caught(e)
            /\ UNCHANGED knowledge_base
       \/ /\ calls' = Append(calls, [op |-> "build", paths |-> source_paths,
                                     exc |-> <<>>])
          /\ knowledge_base' = Append(knowledge_base, source_paths)
          /\ pc' = "generate"
          /\ UNCHANGED << result, pending >>
    /\ UNCHANGED << viaCLI, env, target_repo_url, source_repo_urls,
                    files_to_update, branch_name, config_error, all_local_paths,
                    improvements, cleanup_warned, runs, returned, exit_status >>

\* Log entry of a generate_improvements call: its arguments and its outcome
GenerateCall(exc, ret) ==
    [op |-> "generate", knowledge_base |-> knowledge_base,
     target_local_path |-> target_path, files_to_target |-> files_to_update,
     exc |-> exc, ret |-> ret]

\* Faulty variant: the no-op return forgets to set the success flag
NoOpResult_NoSuccess(res) == Update(res, [improvements_generated |-> 0])

\* The successful no-op: generate returned nothing
NoOpResult(res) == Update(res, [success |-> TRUE, improvements_generated |-> 0])

\* self.evolution_engine.generate_improvements(...) and the no-op return
GenerateStage ==
    /\ pc = "generate"
    /\ \/ \E e \in Exceptions :
            /\ calls' = Append(calls, GenerateCall(<<e>>, <<>>))
            /\ Caught(e)
            /\ UNCHANGED improvements
       \/ \E n \in 0..MaxImprovements :
            /\ calls' = Append(calls, GenerateCall(<<>>, ImprovementSeq(n)))
            /\ improvements' = ImprovementSeq(n)
            /\ IF Len(improvements') = 0
               THEN /\ result' = NoOpResult(result)
                    /\ pc' = "finally"
               ELSE /\ pc' = "apply"
                    /\ UNCHANGED result
            /\ UNCHANGED pending
    /\ UNCHANGED << viaCLI, env, target_repo_url, source_repo_urls,
                    files_to_update, branch_name, config_error, all_local_paths,
                    cleanup_warned, knowledge_base, runs, returned, exit_status >>

\* Log entry of an apply_improvements call: its arguments and its outcome
ApplyCall(exc, ret) ==
    [op |-> "apply", local_repo_path |-> target_path,
     improvements |-> improvements, branch_name |-> branch_name,
     commit_message |-> CommitMessage(improvements), exc |-> exc, ret |-> ret]

\* Faulty variant: the generated count is reported as the applied count
FinalSummary_GeneratedAsApplied(res, applied_details) ==
    Update(res, [improvements_generated |-> Len(improvements),
                 improvements_applied |-> Len(improvements),
                 new_branch |-> branch_name,
                 success |-> TRUE])

\* The result.update({...}) after apply_improvements returned
FinalSummary(res, applied_details) ==
    Update(res, [improvements_generated |-> Len(improvements),
                 improvements_applied |-> Len(applied_details),
                 new_branch |-> branch_name,
                 success |-> TRUE])

\* self.git_manager.apply_improvements(...) and the final summary update
ApplyStage ==
    /\ pc = "apply"
    /\ \/ \E e \in Exceptions :
            /\ calls' = Append(calls, ApplyCall(<<e>>, <<>>))
            /\ Caught(e)
       \/ \E k \in 0..MaxImprovements :
            /\ calls' = Append(calls, ApplyCall(<<>>, ImprovementSeq(k)))
            /\ result' = FinalSummary(result, ImprovementSeq(k))
            /\ pc' = "finally"
            /\ UNCHANGED pending
    /\ UNCHANGED << viaCLI, env, target_repo_url, source_repo_urls,
                    files_to_update, branch_name, config_error, all_local_paths,
                    improvements, cleanup_warned, knowledge_base, runs, returned,
                    exit_status >>

\* Faulty variant: the target's working copy is kept, only the sources go
Cleanup_SourcesOnly(local_paths) ==
    IF Len(local_paths) = 0
    THEN UNCHANGED << calls, cleanup_warned, pending >>
    ELSE \E exc \in {<<>>} \cup {<<e>> : e \in Exceptions} :
            /\ calls' = Append(calls,
                    [op |-> "cleanup",
                     paths |-> SubSeq(local_paths, 1, Len(local_paths) - 1),
                     exc |-> exc])
            /\ cleanup_warned' = (exc # <<>>)
            /\ UNCHANGED pending

\* Faulty variant: no early return for an empty list
Cleanup_NoGuard(local_paths) ==
    \E exc \in {<<>>} \cup {<<e>> : e \in Exceptions} :
        /\ calls' = Append(calls, [op |-> "cleanup", paths |-> local_paths,
                                   exc |-> exc])
        /\ cleanup_warned' = (exc # <<>>)
        /\ UNCHANGED pending

\* Faulty variant: an exception of cleanup_local_paths is not caught
Cleanup_Propagates(local_paths) ==
    IF Len(local_paths) = 0
    THEN UNCHANGED << calls, cleanup_warned, pending >>
    ELSE \E exc \in {<<>>} \cup {<<e>> : e \in Exceptions} :
            /\ calls' = Append(calls, [op |-> "cleanup", paths |-> local_paths,
                                       exc |-> exc])
            /\ UNCHANGED cleanup_warned
            /\ pending' = IF exc # <<>> THEN exc ELSE pending

\* Zen._cleanup(local_paths)
Cleanup(local_paths) ==
    IF Len(local_paths) = 0
    THEN UNCHANGED << calls, cleanup_warned, pending >>
    ELSE \E exc \in {<<>>} \cup {<<e>> : e \in Exceptions} :
            /\ calls' = Append(calls, [op |-> "cleanup", paths |-> local_paths,
                                       exc |-> exc])
            /\ cleanup_warned' = (exc # <<>>)   \* caught, logged as a warning
            /\ UNCHANGED pending

\* The finally clause, then run() leaves: by its return value, or by an
\* exception when one is still pending
Finally ==
    /\ pc = "finally"
    /\ Cleanup(all_local_paths)
    /\ IF pending' = <<>>
       THEN /\ returned' = <<result>>
            /\ pc' = "returned"
       ELSE /\ returned' = <<>>
            /\ pc' = "raised"
    /\ UNCHANGED << viaCLI, env, target_repo_url, source_repo_urls,
                    files_to_update, branch_name, config_error, all_local_paths,
                    result, improvements, knowledge_base, runs, exit_status >>

-----------------------------------------------------------------------------
(* main *)

\* Faulty variant: a run that applied nothing is reported as a failure
ExitCode_NoOpFails(res) ==
    IF res.success /\ res.improvements_applied > 0 THEN 0 ELSE 1

\* Exit code of main() after run() returned res
ExitCode(res) == IF res.success THEN 0 ELSE 1

MainExit ==
    /\ viaCLI
    /\ \/ /\ pc = "returned"
          /\ exit_status' = <<ExitCode(returned[1])>>
       \/ /\ pc \in {"config_error", "raised"}
          /\ exit_status' = <<1>>
    /\ pc' = "exited"
    /\ UNCHANGED << viaCLI, env, target_repo_url, source_repo_urls,
                    files_to_update, branch_name, config_error, all_local_paths,
                    result, improvements, pending, calls, cleanup_warned,
                    knowledge_base, runs, returned >>

-----------------------------------------------------------------------------

RunStep == CloneStage \/ BuildStage \/ GenerateStage \/ ApplyStage \/ Finally

Next == Construct \/ RunBegin \/ RunStep \/ MainExit

Spec == Init /\ [][Next]_vars

\* run() is one thread of blocking calls, each of which returns or raises
FairSpec == Spec /\ WF_vars(RunStep)

-----------------------------------------------------------------------------
(* Vocabulary of the properties *)

\* run() has handed a Run Result to its caller
RunDone == Len(returned) = 1

\* The Run Result of the finished run
R == returned[1]

\* The result dict has key k
HasKey(d, k) == k \in DOMAIN d

Raised(c) == c.exc # <<>>

CallsOf(op) == SelectSeq(calls, LAMBDA c : c.op = op)

\* A call of the clone, build, generate or apply stage raised
StageRaised == \E i \in DOMAIN calls : calls[i].op # "cleanup" /\ Raised(calls[i])

CleanupRaised == \E i \in DOMAIN calls : calls[i].op = "cleanup" /\ Raised(calls[i])

InRun == pc \in {"clone", "build", "generate", "apply", "finally"}

\* The clone call returned a list (calls[1] is the clone call of the run)
CloneReturnedList == Len(calls) > 0 /\ calls[1].op = "clone" /\ ~Raised(calls[1])

CloneMismatch == CloneReturnedList /\ Len(calls[1].ret) # Len(source_repo_urls) + 1

\* Required variables that are not set at all / not set or empty
AbsentCredentials == {v \in DOMAIN env : env[v] = Unset}
MissingCredentials == {v \in DOMAIN env : ~Truthy(env[v])}

Pieces(msg) == {msg[i] : i \in DOMAIN msg}

-----------------------------------------------------------------------------
(* Properties *)

\* C1: every run, whichever collaborator calls raise, ends with run()
\* returning its Run Result; no exception leaves run().
C1_RunAlwaysReturns == InRun ~> (pc = "returned" /\ returned = <<result>>)

\* A run returned although a stage call and the cleanup call both raised
C1_Witness == pc = "returned" /\ StageRaised /\ CleanupRaised

\* C2 as stated: cleanup_local_paths is called exactly once in every run, with
\* the list the clone call returned, on every exit path.
C2_CleanupExactlyOnceAlways ==
    RunDone => /\ Len(CallsOf("cleanup")) = 1
               /\ CallsOf("cleanup")[1].paths = all_local_paths

\* C2, amended: cleanup_local_paths is called exactly once, last, with exactly
\* the list clone returned when that list is non-empty, and not at all when
\* clone raised or returned an empty list.
C2_CleanupOnceIfPaths ==
    RunDone =>
        IF CloneReturnedList /\ Len(calls[1].ret) > 0
        THEN /\ Len(CallsOf("cleanup")) = 1
             /\ CallsOf("cleanup")[1].paths = calls[1].ret
             /\ calls[Len(calls)].op = "cleanup"
        ELSE Len(CallsOf("cleanup")) = 0

\* A failed run (apply raised) that called cleanup once
C2_Witness ==
    /\ RunDone
    /\ Len(CallsOf("cleanup")) = 1
    /\ Len(CallsOf("apply")) = 1 /\ Raised(CallsOf("apply")[1])

\* C3: when generate returns an empty sequence the result is a success with
\* zero improvements generated and applied, and apply is never called.
C3_EmptyGenerationIsNoOp ==
    (RunDone /\ \E i \in DOMAIN calls :
                   /\ calls[i].op = "generate"
                   /\ ~Raised(calls[i])
                   /\ Len(calls[i].ret) = 0)
    => /\ R.success = TRUE
       /\ HasKey(R, "improvements_generated")
       /\ R.improvements_generated = 0
       /\ R.improvements_applied = 0
       /\ Len(CallsOf("apply")) = 0

\* generate returned nothing after a successful build
C3_Witness ==
    /\ RunDone
    /\ Len(CallsOf("build")) = 1
    /\ Len(CallsOf("generate")) = 1
    /\ ~Raised(CallsOf("generate")[1])
    /\ Len(CallsOf("generate")[1].ret) = 0

\* C4 as stated: whatever exception a stage call raises, the result is a
\* failure whose error is the operational classification of that exception,
\* and no result carries the configuration classification.
C4_AlwaysOperational ==
    RunDone =>
        /\ \A i \in DOMAIN calls :
              (calls[i].op # "cleanup" /\ Raised(calls[i])) =>
                  /\ R.success = FALSE
                  /\ HasKey(R, "error")
                  /\ R.error = <<"Operational failure: ", calls[i].exc[1].kind,
                                 ": ", calls[i].exc[1].msg>>
        /\ HasKey(R, "error") => R.error[1] # "Configuration Error: "

\* C4, amended: a stage call that raises makes the result a failure; its error
\* is the operational classification (kind and message) unless the exception
\* is a ZenConfigError, for which it is the configuration classification.
C4_FailureClassified ==
    RunDone =>
        \A i \in DOMAIN calls :
            (calls[i].op # "cleanup" /\ Raised(calls[i])) =>
                LET e == calls[i].exc[1]
                IN  /\ R.success = FALSE
                    /\ HasKey(R, "error")
                    /\ R.error = IF e.kind = "ZenConfigError"
                                 THEN <<"Configuration Error: ", e.msg>>
                                 ELSE <<"Operational failure: ", e.kind, ": ", e.msg>>

\* generate raised an OSError and the run returned
C4_Witness ==
    /\ RunDone
    /\ \E i \in DOMAIN calls :
          /\ calls[i].op = "generate"
          /\ Raised(calls[i])
          /\ calls[i].exc[1].kind = "OSError"

\* C5 as stated: on a clone list of the wrong length the run fails and
\* cleanup_local_paths receives the returned list, also when it is empty.
C5_MismatchCleansAlways ==
    (RunDone /\ CloneMismatch) =>
        /\ R.success = FALSE
        /\ \E i \in DOMAIN calls :
              calls[i].op = "cleanup" /\ calls[i].paths = calls[1].ret

\* C5, amended: on a clone list of the wrong length the run fails;
\* cleanup_local_paths receives the returned list when it is non-empty and is
\* not called when it is empty.
C5_MismatchCleansPaths ==
    (RunDone /\ CloneMismatch) =>
        /\ R.success = FALSE
        /\ IF Len(calls[1].ret) > 0
           THEN /\ Len(CallsOf("cleanup")) = 1
                /\ CallsOf("cleanup")[1].paths = calls[1].ret
           ELSE Len(CallsOf("cleanup")) = 0

\* clone returned one path too many and cleanup was handed all of them
C5_Witness ==
    /\ RunDone
    /\ CloneReturnedList
    /\ Len(calls[1].ret) = Len(source_repo_urls) + 2
    /\ Len(CallsOf("cleanup")) = 1

\* C6: every returned result reports len(sources) + 1 repositories analyzed.
C6_RepositoriesAnalyzed ==
    RunDone => R.repositories_analyzed = Len(source_repo_urls) + 1

\* A failed run whose clone call returned fewer paths than requested
C6_Witness ==
    /\ RunDone
    /\ R.success = FALSE
    /\ CloneReturnedList
    /\ Len(calls[1].ret) < Len(source_repo_urls) + 1

\* C7: clone returned one path per address, generate returned n > 0
\* improvements and apply returned k items: the result is a success reporting
\* n generated, k applied, the requested branch and len(sources) + 1.
C7_AppliedSuccess ==
    (/\ RunDone
     /\ CloneReturnedList /\ ~CloneMismatch
     /\ Len(CallsOf("generate")) = 1 /\ ~Raised(CallsOf("generate")[1])
     /\ Len(CallsOf("generate")[1].ret) > 0
     /\ Len(CallsOf("apply")) = 1 /\ ~Raised(CallsOf("apply")[1]))
    => /\ R.success = TRUE
       /\ R.improvements_generated = Len(CallsOf("generate")[1].ret)
       /\ R.improvements_applied = Len(CallsOf("apply")[1].ret)
       /\ HasKey(R, "new_branch")
       /\ R.new_branch = branch_name
       /\ R.repositories_analyzed = Len(source_repo_urls) + 1

\* The scenario of the specification: 2 sources, 3 generated, 3 applied
C7_Witness ==
    /\ RunDone
    /\ Len(source_repo_urls) = 2
    /\ Len(CallsOf("apply")) = 1 /\ ~Raised(CallsOf("apply")[1])
    /\ R.repositories_analyzed = 3
    /\ R.improvements_generated = 3
    /\ R.improvements_applied = 3

\* C8 as stated: construction fails with a configuration error when the target
\* is empty or a credential is absent, the message names every absent
\* credential, and a failed construction is followed by no run.
C8_MessageNamesAllAlways ==
    pc # "new" =>
        /\ (target_repo_url = "" \/ AbsentCredentials # {}) =>
               /\ Len(config_error) = 1
               /\ AbsentCredentials \subseteq Pieces(config_error[1])
        /\ Len(config_error) = 1 => (runs = 0 /\ calls = <<>>)

\* C8, amended: construction fails with a configuration error when the target
\* is empty or a credential is unset or empty; with a non-empty target the
\* message names exactly the missing credentials; with an empty target the
\* message is the empty-target one; a failed construction is followed by no
\* run and no collaborator call.
C8_ConstructionValidation ==
    pc # "new" =>
        /\ target_repo_url = "" => config_error = <<EmptyTargetMessage>>
        /\ (target_repo_url # "" /\ MissingCredentials # {}) =>
               /\ Len(config_error) = 1
               /\ config_error[1][1] = "Missing required environment variables: "
               /\ Pieces(config_error[1]) \cap DOMAIN env = MissingCredentials
        /\ Len(config_error) = 1 =>
               /\ pc \in {"config_error", "exited"}
               /\ runs = 0
               /\ calls = <<>>
               /\ returned = <<>>

\* Construction failed with both credentials missing and a target given
C8_Witness ==
    /\ pc = "config_error"
    /\ target_repo_url # ""
    /\ Cardinality(MissingCredentials) = 2

\* C9: the step that runs cleanup returns the result as it stood before
\* cleanup, whether cleanup_local_paths raises or not.
C9_CleanupNeverChangesResult ==
    [][pc = "finally" =>
          (pc' = "returned" /\ result' = result /\ returned' = <<result>>)]_vars

\* A successful run whose cleanup call raised
C9_Witness == RunDone /\ CleanupRaised /\ cleanup_warned /\ R.success = TRUE

\* C10: the process exits with 0 exactly when a run reported success, and
\* with 1 exactly when construction raised a configuration error or the run
\* reported failure.
C10_ExitCode ==
    pc = "exited" =>
        /\ exit_status \in {<<0>>, <<1>>}
        /\ exit_status = <<0>> <=> (RunDone /\ R.success = TRUE)
        /\ exit_status = <<1>> <=>
               (Len(config_error) = 1 \/ (RunDone /\ R.success = FALSE))

\* The process exited with 0 after a no-op success
C10_Witness ==
    /\ pc = "exited"
    /\ exit_status = <<0>>
    /\ RunDone
    /\ HasKey(R, "improvements_generated")
    /\ R.improvements_generated = 0

-----------------------------------------------------------------------------
(* Properties of the order and the arguments of the collaborator calls *)

\* Position of a collaborator operation in the pipeline
StageRank(op) ==
    CASE op = "clone" -> 1
      [] op = "build" -> 2
      [] op = "generate" -> 3
      [] op = "apply" -> 4
      [] op = "cleanup" -> 5

Elements(seq) == {seq[i] : i \in DOMAIN seq}

\* The list the clone call of the current run returned
ClonedSet == calls[1].ret

\* C11: the calls of a run are made in the order clone, build, generate,
\* apply, cleanup; a stage call is made only when no earlier call of the run
\* raised; nothing is called after cleanup.
C11_StrictStageOrder ==
    /\ Len(calls) > 0 => calls[1].op = "clone"
    /\ \A i, j \in DOMAIN calls :
          i < j =>
              /\ StageRank(calls[i].op) < StageRank(calls[j].op)
              /\ calls[j].op # "cleanup" => ~Raised(calls[i])

\* A run that went through all five calls
C11_Witness ==
    /\ RunDone
    /\ Len(calls) = 5
    /\ calls[2].op = "build" /\ calls[3].op = "generate"
    /\ calls[4].op = "apply" /\ calls[5].op = "cleanup"

\* C12: within one run every collaborator operation is called at most once;
\* an operation that raised is not called again.
C12_NoRetries ==
    \A op \in {"clone", "build", "generate", "apply", "cleanup"} :
        Len(CallsOf(op)) <= 1

\* build raised, the run ended and cleanup was still called once
C12_Witness ==
    /\ RunDone
    /\ Len(CallsOf("build")) = 1 /\ Raised(CallsOf("build")[1])
    /\ Len(CallsOf("cleanup")) = 1

\* C13: build receives the clone set without its last element, in order, and
\* never the target's path; generate and apply receive the last element.
C13_BuildFromSourcesOnly ==
    \A i \in DOMAIN calls :
        /\ calls[i].op = "build" =>
              /\ calls[i].paths = SubSeq(ClonedSet, 1, Len(ClonedSet) - 1)
              /\ ClonedSet[Len(ClonedSet)] \notin Elements(calls[i].paths)
        /\ calls[i].op = "generate" =>
              calls[i].target_local_path = ClonedSet[Len(ClonedSet)]
        /\ calls[i].op = "apply" =>
              calls[i].local_repo_path = ClonedSet[Len(ClonedSet)]

\* Two source paths went to build, the third path to generate and apply
C13_Witness ==
    /\ RunDone
    /\ Len(CallsOf("build")) = 1 /\ Len(CallsOf("build")[1].paths) = 2
    /\ Len(CallsOf("generate")) = 1
    /\ Len(CallsOf("apply")) = 1

\* C14: with an empty source list build is never called, and once clone has
\* returned the one requested path generate is called with it.
C14_EmptySourcesDegradedMode ==
    Len(source_repo_urls) = 0 =>
        /\ Len(CallsOf("build")) = 0
        /\ (RunDone /\ CloneReturnedList /\ ~CloneMismatch) =>
               /\ Len(CallsOf("generate")) = 1
               /\ CallsOf("generate")[1].target_local_path = ClonedSet[1]

\* A run without sources that applied improvements and succeeded
C14_Witness ==
    /\ RunDone
    /\ Len(source_repo_urls) = 0
    /\ Len(CallsOf("generate")) = 1
    /\ Len(CallsOf("apply")) = 1
    /\ R.success = TRUE

\* C15: when build, generate or apply raises, the failure result carries the
\* last element of the clone set as target_path; when clone raises or returns
\* the wrong number of paths, target_path stays None.
C15_TargetPathRecordedEarly ==
    RunDone =>
        /\ (\E i \in DOMAIN calls :
               calls[i].op \in {"build", "generate", "apply"} /\ Raised(calls[i]))
           => (R.success = FALSE /\ R.target_path = ClonedSet[Len(ClonedSet)])
        /\ (Raised(calls[1]) \/ CloneMismatch) => R.target_path = None

\* build raised and the failure result names the target's path
C15_Witness ==
    /\ RunDone
    /\ Len(CallsOf("build")) = 1 /\ Raised(CallsOf("build")[1])
    /\ R.target_path # None

\* C16 as stated: the knowledge base handed to generate has seen only the
\* build call of the same run, or no build call when the run made none.
C16_KnowledgeScopedToRun ==
    \A i \in DOMAIN calls :
        calls[i].op = "generate" =>
            calls[i].knowledge_base =
                IF Len(CallsOf("build")) = 1
                THEN <<CallsOf("build")[1].paths>>
                ELSE <<>>

\* C17 as stated: the count in the commit message handed to apply equals
\* improvements_applied of the result.
C17_CommitMessageStatesApplied ==
    (RunDone /\ Len(CallsOf("apply")) = 1 /\ ~Raised(CallsOf("apply")[1])) =>
        CallsOf("apply")[1].commit_message[2] = R.improvements_applied

\* C18: a returned result has an error entry exactly when success is false,
\* and a new_branch entry only when success is true and apply returned.
C18_ErrorIffFailure ==
    RunDone =>
        /\ HasKey(R, "error") <=> (R.success = FALSE)
        /\ HasKey(R, "new_branch") =>
               /\ R.success = TRUE
               /\ Len(CallsOf("apply")) = 1
               /\ ~Raised(CallsOf("apply")[1])

\* A ZenConfigError raised by apply: failure with an error, no new_branch
C18_Witness ==
    /\ RunDone
    /\ Len(CallsOf("apply")) = 1 /\ Raised(CallsOf("apply")[1])
    /\ CallsOf("apply")[1].exc[1].kind = "ZenConfigError"
    /\ HasKey(R, "error")
    /\ ~HasKey(R, "new_branch")

\* C19: when the returned result carries a target_path, the cleanup call of
\* the run has already been made and that path is in the list it was given.
C19_ReportedTargetAlreadyCleaned ==
    (RunDone /\ R.target_path # None) =>
        /\ Len(CallsOf("cleanup")) = 1
        /\ calls[Len(calls)].op = "cleanup"
        /\ R.target_path \in Elements(CallsOf("cleanup")[1].paths)

\* main() has printed a success summary naming the target path
C19_Witness ==
    /\ pc = "exited"
    /\ RunDone
    /\ R.success = TRUE
    /\ R.target_path # None
    /\ exit_status = <<0>>

=============================================================================
